---------------------------- MODULE Spec2Model ----------------------------
(***************************************************************************)
(* A model of ChemEqBalancer.py: the formula counter                       *)
(* (ChemEqParser.atom_count_in_formula with its pre-validation), the       *)
(* equation parser and matrix builder (ChemEqParser.equation_parser,       *)
(* get_matrix) and the balancer (get_stoic).                               *)
(*                                                                         *)
(* A Python string is a sequence of one-character strings.  The two        *)
(* non-ASCII characters the program looks for are written by their code    *)
(* points: "U+00B7" is the middle dot of hydrates, "U+2192" the arrow.     *)
(* A Python dict (insertion-ordered) is a sequence of <<key, value>>       *)
(* pairs with distinct keys.                                               *)
(***************************************************************************)
EXTENDS Integers, Sequences, FiniteSets, TLC

VARIABLES
    mode,        \* which entry point this behaviour exercises
    formula,     \* the argument of validate_formula / atom_count_in_formula
    validation,  \* what validate_formula(formula) did, NotCalled before the call
    counted,     \* what atom_count_in_formula(formula) did, NotCalled before the call
    input,       \* the pieces the equation text is written from
    equation,    \* the argument of get_stoic
    stoic,       \* what get_stoic(equation) returned, NotCalled before the call
    work,        \* what get_stoic(equation, show_work=True) returned, or NotCalled
    parser,      \* the fields of one ChemEqParser instance
    lastCall,    \* the outcome of the latest equation_parser call on it
    matrixData,  \* what the latest get_matrix call on it did
    calls        \* number of equation_parser calls made on the instance

vars == <<mode, formula, validation, counted, input, equation, stoic, work,
          parser, lastCall, matrixData, calls>>

---------------------------------------------------------------------------
(* Characters *)

MiddleDot == "U+00B7"
RightArrow == "U+2192"

Upper == {"A","B","C","D","E","F","G","H","I","J","K","L","M",
          "N","O","P","Q","R","S","T","U","V","W","X","Y","Z"}
Lower == {"a","b","c","d","e","f","g","h","i","j","k","l","m",
          "n","o","p","q","r","s","t","u","v","w","x","y","z"}
Digit == {"0","1","2","3","4","5","6","7","8","9"}
Whitespace == {" "}

DigitVal(c) ==
    CASE c = "0" -> 0 [] c = "1" -> 1 [] c = "2" -> 2 [] c = "3" -> 3
      [] c = "4" -> 4 [] c = "5" -> 5 [] c = "6" -> 6 [] c = "7" -> 7
      [] c = "8" -> 8 [] c = "9" -> 9

IsAlpha(c) == c \in Upper \cup Lower

---------------------------------------------------------------------------
(* Insertion-ordered dicts *)

Keys(d) == [k \in 1..Len(d) |-> d[k][1]]
KeySet(d) == {d[k][1] : k \in 1..Len(d)}
HasKey(d, key) == key \in KeySet(d)

\* d.get(key, default)
Get(d, key, default) ==
    IF HasKey(d, key)
    THEN d[CHOOSE k \in 1..Len(d) : d[k][1] = key][2]
    ELSE default

\* d[key] = value : a new key goes last, an old one keeps its place
Put(d, key, value) ==
    IF HasKey(d, key)
    THEN [k \in 1..Len(d) |-> IF d[k][1] = key THEN <<key, value>> ELSE d[k]]
    ELSE Append(d, <<key, value>>)

\* defaultdict(int): d[key] += n
AddTo(d, key, n) == Put(d, key, Get(d, key, 0) + n)

\* for element, count in src.items(): dst[element] += count * multiplier
RECURSIVE MergeScaledFrom(_, _, _, _)
MergeScaledFrom(dst, src, multiplier, k) ==
    IF k > Len(src) THEN dst
    ELSE MergeScaledFrom(AddTo(dst, src[k][1], src[k][2] * multiplier),
                         src, multiplier, k + 1)

MergeScaled(dst, src, multiplier) == MergeScaledFrom(dst, src, multiplier, 1)

---------------------------------------------------------------------------
(* Results of a call: a value or the exception it raised *)

\* Python's None, and a value where None may stand instead
None == [none |-> TRUE]
Some(v) == [some |-> v]

\* the place of a result before the call is made
NotCalled == [called |-> FALSE]

Returned(v) == [ok |-> TRUE, value |-> v]
Raised(kind, about, hint) ==
    [ok |-> FALSE, error |-> kind, about |-> about, suggested |-> hint]

---------------------------------------------------------------------------
(* ChemEqParser.validate_formula *)

RECURSIVE LowerRun(_, _)
LowerRun(f, i) ==
    IF i <= Len(f) /\ f[i] \in Lower THEN LowerRun(f, i + 1) ELSE i

\* the digit run starting at i: <<its value, the index after it>>
RECURSIVE DigitRun(_, _, _)
DigitRun(f, i, acc) ==
    IF i <= Len(f) /\ f[i] \in Digit
    THEN DigitRun(f, i + 1, acc * 10 + DigitVal(f[i]))
    ELSE <<acc, i>>

\* the list "elements" of validate_formula
RECURSIVE ElementsFrom(_, _, _)
ElementsFrom(f, i, elements) ==
    IF i > Len(f) THEN elements
    ELSE IF f[i] \in Upper
         THEN LET j == LowerRun(f, i + 1)
              IN ElementsFrom(f, j, Append(elements, SubSeq(f, i, j - 1)))
         ELSE ElementsFrom(f, i + 1, elements)

\* str.replace(old, new) for one-character old and new
ReplaceChar(f, old, new) ==
    [k \in 1..Len(f) |-> IF f[k] = old THEN new ELSE f[k]]

\* a slip: the pair ('1', 'I') left out of the list of common errors
SuggestedZeroOnly(f) == ReplaceChar(f, "0", "O")

\* "suggested" after the loop over [('0', 'O'), ('1', 'I')]
Suggested(f) == ReplaceChar(ReplaceChar(f, "0", "O"), "1", "I")

validate_formula(f) ==
    IF f = <<>>
    THEN Raised("IndexError", f, <<>>)
    ELSE IF /\ f[Len(f)] \in Digit
            /\ \E k \in 1..(Len(f) - 1) : IsAlpha(f[k])
            /\ ElementsFrom(f, 1, <<>>) # <<>>
            /\ Suggested(f) # f
         THEN Raised("ValueError", f, Suggested(f))
         ELSE Returned(None)

---------------------------------------------------------------------------
(* ChemEqParser.atom_count_in_formula *)

\* a slip: the default left out, so that a group without a number counts 0
GroupMultiplierNoDefault(run) == run

\* "multiplier if multiplier else 1" after a closing parenthesis
GroupMultiplier(run) == IF run # 0 THEN run ELSE 1

\* "count_num if count_num else 1" after an element symbol
ElementCountNum(run) == IF run # 0 THEN run ELSE 1

\* the while loop over the characters of a formula without a middle dot
RECURSIVE ScanFormula(_, _, _, _)
ScanFormula(f, i, stack, current_element) ==
    IF i > Len(f) THEN current_element
    ELSE IF f[i] = "("
    THEN ScanFormula(f, i + 1, Append(stack, current_element), <<>>)
    ELSE IF f[i] = ")"
    THEN LET run == DigitRun(f, i + 1, 0)
             multiplier == GroupMultiplier(run[1])
         IN IF stack # <<>>
            THEN ScanFormula(f, run[2], SubSeq(stack, 1, Len(stack) - 1),
                             MergeScaled(stack[Len(stack)], current_element,
                                         multiplier))
            ELSE ScanFormula(f, run[2], stack, current_element)
    ELSE IF f[i] \in Upper
    THEN LET j == LowerRun(f, i + 1)
             element == SubSeq(f, i, j - 1)
             run == DigitRun(f, j, 0)
         IN ScanFormula(f, run[2], stack,
                        AddTo(current_element, element,
                              ElementCountNum(run[1])))
    ELSE ScanFormula(f, i + 1, stack, current_element)

\* str.split(sep) for a one-character sep
RECURSIVE SplitOn(_, _, _, _, _)
SplitOn(s, sep, i, piece, pieces) ==
    IF i > Len(s) THEN Append(pieces, piece)
    ELSE IF s[i] = sep
         THEN SplitOn(s, sep, i + 1, <<>>, Append(pieces, piece))
         ELSE SplitOn(s, sep, i + 1, Append(piece, s[i]), pieces)

Split(s, sep) == SplitOn(s, sep, 1, <<>>, <<>>)

Contains(s, c) == \E k \in 1..Len(s) : s[k] = c

\* the formula once validation passed and it holds no middle dot
CountPlain(f) ==
    LET v == validate_formula(f)
    IN IF ~v.ok THEN v ELSE Returned(ScanFormula(f, 1, <<>>, <<>>))

\* the loop over the parts of a hydrate: the first part that raises ends it
RECURSIVE CountParts(_, _, _)
CountParts(parts, k, counts) ==
    IF k > Len(parts) THEN Returned(counts)
    ELSE LET part_counts == CountPlain(parts[k])
         IN IF ~part_counts.ok THEN part_counts
            ELSE CountParts(parts, k + 1,
                            MergeScaled(counts, part_counts.value, 1))

atom_count_in_formula(f) ==
    LET v == validate_formula(f)
    IN IF ~v.ok THEN v
       ELSE IF Contains(f, MiddleDot)
            THEN CountParts(Split(f, MiddleDot), 1, <<>>)
            ELSE Returned(ScanFormula(f, 1, <<>>, <<>>))

---------------------------------------------------------------------------
(* ChemEqParser: the instance and equation_parser *)

\* ChemEqParser.__init__
NewParser ==
    [reactants |-> <<>>, products |-> <<>>, chem_species |-> <<>>,
     chem_species_counts |-> <<>>, all_elements |-> <<>>,
     parsed_chem_eq |-> <<>>]

RECURSIVE LStrip(_)
LStrip(s) ==
    IF s # <<>> /\ s[1] \in Whitespace THEN LStrip(Tail(s)) ELSE s

RECURSIVE RStrip(_)
RStrip(s) ==
    IF s # <<>> /\ s[Len(s)] \in Whitespace
    THEN RStrip(SubSeq(s, 1, Len(s) - 1))
    ELSE s

\* str.strip()
Strip(s) == RStrip(LStrip(s))

\* the text cut at every "->", arrow or "="
RECURSIVE CutAtSeparators(_, _, _, _)
CutAtSeparators(s, i, piece, pieces) ==
    IF i > Len(s) THEN Append(pieces, piece)
    ELSE IF s[i] = "-" /\ i < Len(s) /\ s[i + 1] = ">"
    THEN CutAtSeparators(s, i + 2, <<>>, Append(pieces, piece))
    ELSE IF s[i] = RightArrow \/ s[i] = "="
    THEN CutAtSeparators(s, i + 1, <<>>, Append(pieces, piece))
    ELSE CutAtSeparators(s, i + 1, Append(piece, s[i]), pieces)

\* re.split(r'\s*(?:->|arrow|=)\s*', equation.strip()): each match takes the
\* whitespace on both sides of its separator with it
SplitEquation(eq) ==
    LET pieces == CutAtSeparators(Strip(eq), 1, <<>>, <<>>)
    IN [k \in 1..Len(pieces) |-> Strip(pieces[k])]

\* [species.strip() for species in part.split("+")]
SpeciesOf(part) ==
    LET pieces == Split(part, "+")
    IN [k \in 1..Len(pieces) |-> Strip(pieces[k])]

\* "if element not in self.all_elements: self.all_elements[element] = None"
RECURSIVE NoteElements(_, _, _)
NoteElements(all_elements, keys, k) ==
    IF k > Len(keys) THEN all_elements
    ELSE NoteElements(IF \E j \in 1..Len(all_elements) :
                            all_elements[j] = keys[k]
                      THEN all_elements
                      ELSE Append(all_elements, keys[k]),
                      keys, k + 1)

\* ChemEqParser._get_atom_count: the loop over chem_species, ended by the
\* first formula that raises, with what it had stored by then
RECURSIVE GetAtomCount(_, _, _, _)
GetAtomCount(chem_species, k, chem_species_counts, all_elements) ==
    IF k > Len(chem_species)
    THEN [outcome |-> Returned(None),
          chem_species_counts |-> chem_species_counts,
          all_elements |-> all_elements]
    ELSE LET counts == atom_count_in_formula(chem_species[k])
         IN IF ~counts.ok
            THEN [outcome |-> counts,
                  chem_species_counts |-> chem_species_counts,
                  all_elements |-> all_elements]
            ELSE GetAtomCount(chem_species, k + 1,
                              Append(chem_species_counts, counts.value),
                              NoteElements(all_elements,
                                           Keys(counts.value), 1))

\* the OrderedDict built for one species
SpeciesDict(counts, all_elements, isProduct) ==
    [j \in 1..Len(all_elements) |->
        <<all_elements[j],
          IF isProduct THEN Get(counts, all_elements[j], 0) * (-1)
          ELSE Get(counts, all_elements[j], 0)>>]

\* ChemEqParser._get_species_dicts
RECURSIVE GetSpeciesDicts(_, _, _, _, _, _)
GetSpeciesDicts(chem_species, counts, all_elements, num_reactants, i, parsed_chem_eq) ==
    IF i > Len(chem_species) THEN parsed_chem_eq
    ELSE GetSpeciesDicts(chem_species, counts, all_elements,
                         num_reactants, i + 1,
                         Put(parsed_chem_eq, chem_species[i],
                             SpeciesDict(counts[i], all_elements,
                                         i > num_reactants)))

\* equation_parser from "self._get_atom_count()" on: the fields assigned so
\* far, and the species dicts unless a formula raised
StoreCounts(p, reactants, products, counted3) ==
    LET p1 == [p EXCEPT !.reactants = reactants,
                        !.products = products,
                        !.chem_species = reactants \o products,
                        !.chem_species_counts = counted3.chem_species_counts,
                        !.all_elements = counted3.all_elements]
    IN IF ~counted3.outcome.ok
       THEN [parser |-> p1, outcome |-> counted3.outcome]
       ELSE [parser |->
                [p1 EXCEPT !.parsed_chem_eq =
                    GetSpeciesDicts(reactants \o products,
                                    counted3.chem_species_counts,
                                    counted3.all_elements,
                                    Len(reactants), 1, <<>>)],
             outcome |->
                Returned(GetSpeciesDicts(reactants \o products,
                                         counted3.chem_species_counts,
                                         counted3.all_elements,
                                         Len(reactants), 1, <<>>))]

\* equation_parser once the text is split: anything but two parts raises
ParseSides(p, eq, parts) ==
    IF Len(parts) # 2
    THEN [parser |-> p, outcome |-> Raised("ValueError", eq, <<>>)]
    ELSE StoreCounts(p, SpeciesOf(parts[1]), SpeciesOf(parts[2]),
                     GetAtomCount(SpeciesOf(parts[1]) \o SpeciesOf(parts[2]),
                                  1, <<>>, <<>>))

\* ChemEqParser.equation_parser on an instance whose fields are p: the
\* fields afterwards and what the call returned or raised
equation_parser(p, eq) == ParseSides(p, eq, SplitEquation(eq))

\* ChemEqParser.get_matrix on an instance whose fields are p
get_matrix(p) ==
    IF p.parsed_chem_eq = <<>>
    THEN Raised("ValueError", <<>>, <<>>)
    ELSE IF /\ p.all_elements # <<>>
            /\ \E j \in 1..Len(p.chem_species) :
                  ~HasKey(p.parsed_chem_eq, p.chem_species[j])
    THEN Raised("KeyError", <<>>, <<>>)
    ELSE Returned(
        [matrix |-> [e \in 1..Len(p.all_elements) |->
                        [j \in 1..Len(p.chem_species) |->
                            Get(Get(p.parsed_chem_eq, p.chem_species[j], <<>>),
                                p.all_elements[e], 0)]],
         elements |-> p.all_elements,
         species |-> p.chem_species])

---------------------------------------------------------------------------
(* Exact rationals (sympy Rational): <<numerator, denominator>> in lowest *)
(* terms with a positive denominator                                      *)

Abs(x) == IF x < 0 THEN -x ELSE x

RECURSIVE GCD(_, _)
GCD(a, b) == IF b = 0 THEN a ELSE GCD(b, a % b)

LCM(a, b) == (a * b) \div GCD(a, b)

Rat(n, d) ==
    LET g == GCD(Abs(n), Abs(d))
    IN IF d < 0 THEN <<(-n) \div g, (-d) \div g>> ELSE <<n \div g, d \div g>>

RInt(n) == <<n, 1>>
RSub(a, b) == Rat(a[1] * b[2] - b[1] * a[2], a[2] * b[2])
RMul(a, b) == Rat(a[1] * b[1], a[2] * b[2])
RDiv(a, b) == Rat(a[1] * b[2], a[2] * b[1])
RNeg(a) == <<-a[1], a[2]>>
RAbs(a) == <<Abs(a[1]), a[2]>>

---------------------------------------------------------------------------
(* sympy Matrix(...).nullspace(), as get_stoic uses it *)

\* Matrix.rref: Gauss-Jordan elimination from row r and column c on
RECURSIVE RowReduce(_, _, _, _)
RowReduce(M, r, c, pivots) ==
    IF r > Len(M) \/ c > Len(M[1])
    THEN [reduced |-> M, pivots |-> pivots]
    ELSE LET candidates == {k \in r..Len(M) : M[k][c][1] # 0}
         IN IF candidates = {}
            THEN RowReduce(M, r, c + 1, pivots)
            ELSE
            LET p == CHOOSE k \in candidates : \A j \in candidates : k <= j
                swapped == [k \in 1..Len(M) |->
                               IF k = r THEN M[p]
                               ELSE IF k = p THEN M[r] ELSE M[k]]
                pivotRow == [j \in 1..Len(M[1]) |->
                                RDiv(swapped[r][j], swapped[r][c])]
                cleared == [k \in 1..Len(M) |->
                               IF k = r THEN pivotRow
                               ELSE [j \in 1..Len(M[1]) |->
                                        RSub(swapped[k][j],
                                             RMul(swapped[k][c], pivotRow[j]))]]
            IN RowReduce(cleared, r + 1, c + 1, Append(pivots, c))

\* the value a basis vector gives its free variable
FreeVariableValue == RInt(1)

\* the basis vector of one free column: the free variable itself is one,
\* each pivot variable is minus its row's entry in the free column
BasisVector(rr, ncols, free_var) ==
    [j \in 1..ncols |->
        IF j = free_var THEN FreeVariableValue
        ELSE IF \E r \in 1..Len(rr.pivots) : rr.pivots[r] = j
        THEN RNeg(rr.reduced[CHOOSE r \in 1..Len(rr.pivots) :
                                 rr.pivots[r] = j][free_var])
        ELSE RInt(0)]

\* the columns without a pivot, in increasing order
RECURSIVE FreeVars(_, _, _)
FreeVars(pivots, ncols, j) ==
    IF j > ncols THEN <<>>
    ELSE IF \E r \in 1..Len(pivots) : pivots[r] = j
         THEN FreeVars(pivots, ncols, j + 1)
         ELSE <<j>> \o FreeVars(pivots, ncols, j + 1)

\* Matrix(matrix).nullspace(): one basis vector per free column; a list of
\* no rows is the 0 x 0 matrix, whose null space has no basis vector
Nullspace(matrix) ==
    IF matrix = <<>> THEN <<>>
    ELSE LET M == [e \in 1..Len(matrix) |->
                      [j \in 1..Len(matrix[e]) |-> RInt(matrix[e][j])]]
             rr == RowReduce(M, 1, 1, <<>>)
             free == FreeVars(rr.pivots, Len(M[1]), 1)
         IN [k \in 1..Len(free) |-> BasisVector(rr, Len(M[1]), free[k])]

---------------------------------------------------------------------------
(* get_stoic *)

RECURSIVE LcmList(_, _, _)
LcmList(denominators, k, acc) ==
    IF k > Len(denominators) THEN acc
    ELSE LcmList(denominators, k + 1, LCM(acc, denominators[k]))

RECURSIVE ProductList(_, _, _)
ProductList(denominators, k, acc) ==
    IF k > Len(denominators) THEN acc
    ELSE ProductList(denominators, k + 1, acc * denominators[k])

\* a slip: the product of the denominators in place of their lcm
MultiplierProduct(denominators) == ProductList(denominators, 1, 1)

\* "multiplier = lcm(denominators) if denominators else 1"
Multiplier(denominators) ==
    IF denominators = <<>> THEN 1 ELSE LcmList(denominators, 1, 1)

\* "coeff.is_integer and coeff > 0"
IsPositiveInteger(coeff) == coeff[2] = 1 /\ coeff[1] > 0

\* the "if all(...) ... else ..." that turns raw_coeffs into final_coeffs
FinalCoeffs(raw_coeffs) ==
    IF \A k \in 1..Len(raw_coeffs) : IsPositiveInteger(raw_coeffs[k])
    THEN Some([k \in 1..Len(raw_coeffs) |-> raw_coeffs[k][1]])
    ELSE IF \E k \in 1..Len(raw_coeffs) : raw_coeffs[k][1] < 0
    THEN IF \A k \in 1..Len(raw_coeffs) : IsPositiveInteger(RAbs(raw_coeffs[k]))
         THEN Some([k \in 1..Len(raw_coeffs) |-> RAbs(raw_coeffs[k])[1]])
         ELSE None
    ELSE None

\* the six-tuple of show_work, as a record, when nothing was computed
NoWork ==
    [final_coeffs |-> None, matrix_data |-> None, vec |-> None,
     simplified_vec |-> None, multiplier |-> None, raw_coeffs |-> None]

\* get_stoic from "vec = nullspace[0]" on
StoicOfVec(matrix_data, vec) ==
    LET simplified_vec == vec
        denominators == [k \in 1..Len(vec) |-> simplified_vec[k][2]]
        multiplier == Multiplier(denominators)
        raw_coeffs == [k \in 1..Len(vec) |->
                          RMul(simplified_vec[k], RInt(multiplier))]
    IN [final_coeffs |-> FinalCoeffs(raw_coeffs),
        matrix_data |-> Some(matrix_data),
        vec |-> Some(vec),
        simplified_vec |-> Some(simplified_vec),
        multiplier |-> Some(multiplier),
        raw_coeffs |-> Some(raw_coeffs)]

\* get_stoic from "if not nullspace" on
StoicOfNullspace(matrix_data, nullspace) ==
    IF nullspace = <<>>
    THEN [NoWork EXCEPT !.matrix_data = Some(matrix_data)]
    ELSE StoicOfVec(matrix_data, nullspace[1])

\* get_stoic once parser.get_matrix() returned or raised
StoicOfMatrix(got) ==
    IF ~got.ok THEN NoWork
    ELSE StoicOfNullspace(got.value, Nullspace(got.value.matrix))

\* get_stoic once parser.equation_parser(equation) returned or raised
StoicOfParsed(parsed) ==
    IF ~parsed.outcome.ok THEN NoWork
    ELSE StoicOfMatrix(get_matrix(parsed.parser))

\* what get_stoic(equation, show_work=True) returns: the six-tuple as a record
StoicWork(eq) == StoicOfParsed(equation_parser(NewParser, eq))

\* get_stoic(equation, show_work)
get_stoic(eq, show_work) ==
    IF show_work THEN StoicWork(eq) ELSE StoicWork(eq).final_coeffs

---------------------------------------------------------------------------
(* Inputs *)

MaxFormulaLen == 4
MaxSpecies == 3
MaxCalls == 3

\* the characters short formulas are written in: an element letter, a
\* lowercase letter, an ordinary digit, the two digits pre-validation looks
\* for, both parentheses and the middle dot
FormulaAlphabet == {"H", "g", "2", "0", "1", "(", ")", MiddleDot}

ShortFormulas ==
    UNION {[1..n -> FormulaAlphabet] : n \in 0..MaxFormulaLen}

KnownFormulas ==
    { <<"H","2","O">>,
      <<"M","g","(","O","H",")","2">>,
      <<"F","e","(","N","O","3",")","3">>,
      <<"C","u","S","O","4",MiddleDot,"5","H","2","O">>,
      <<"C","u","S","O","4",MiddleDot,"H","2","O">>,
      <<"A","l","2","(","S","O","4",")","3">>,
      <<"(","N","H","4",")","2","S","O","4">>,
      <<"(","(","C","H","3",")","2","N",")","3","P">>,
      <<"C","a","(","(","O","H",")","2",")","3">>,
      <<"(","H",MiddleDot,"O",")","2">>,
      <<"C","1","0","H","2","2">>,
      <<"H","2","0">>,
      <<"M","g","(","O","H">>,
      <<"H","2","O",")","2">> }

Formulas == ShortFormulas \cup KnownFormulas

\* the species equations are written from; one is suspicious, one is empty
SpeciesPool ==
    { <<"H","2">>, <<"O","2">>, <<"H","2","O">>, <<"H","O">>,
      <<"F","e">>, <<"F","e","2","O","3">>, <<"H","2","0">>, <<>> }

\* how the two sides are joined: the three separators, none, and two
Separators ==
    { <<" ","-",">"," ">>, <<"=">>, <<" ",RightArrow," ">>, <<" ">>,
      <<" ","-",">"," ","="," ">> }

Sides == UNION {[1..n -> SpeciesPool] : n \in 1..(MaxSpecies - 1)}

EquationInputs ==
    { i \in [reactants : Sides, products : Sides, sep : Separators] :
        Len(i.reactants) + Len(i.products) <= MaxSpecies }

\* the species of one side joined by " + "
RECURSIVE JoinPlus(_, _)
JoinPlus(side, k) ==
    IF k = Len(side) THEN side[k]
    ELSE side[k] \o <<" ", "+", " ">> \o JoinPlus(side, k + 1)

EquationText(i) ==
    JoinPlus(i.reactants, 1) \o i.sep \o JoinPlus(i.products, 1)

\* the equations one parser instance is called with, in any order
ParserPool == { <<"H","2">>, <<"H","2","O">>, <<"H","2","0">> }

ParserInputs ==
    [reactants : [1..1 -> ParserPool], products : [1..1 -> ParserPool],
     sep : {<<" ","-",">"," ">>, <<" ">>}]

NoInput == [reactants |-> <<>>, products |-> <<>>, sep |-> <<>>]

---------------------------------------------------------------------------
(* Specifications *)

\* a formula is handed to validate_formula and to atom_count_in_formula
InitFormula ==
    /\ mode = "formula"
    /\ formula \in Formulas
    /\ validation = NotCalled
    /\ counted = NotCalled
    /\ input = NoInput
    /\ equation = <<>>
    /\ stoic = NotCalled
    /\ work = NotCalled
    /\ parser = NewParser
    /\ lastCall = NotCalled
    /\ matrixData = NotCalled
    /\ calls = 0

\* an equation is handed to get_stoic, with and without show_work
InitStoic ==
    /\ mode = "stoic"
    /\ formula = <<>>
    /\ validation = NotCalled
    /\ counted = NotCalled
    /\ input \in EquationInputs
    /\ equation = EquationText(input)
    /\ stoic = NotCalled
    /\ work = NotCalled
    /\ parser = NewParser
    /\ lastCall = NotCalled
    /\ matrixData = NotCalled
    /\ calls = 0

\* one ChemEqParser instance is constructed, then called again and again
InitParser ==
    /\ mode = "parser"
    /\ formula = <<>>
    /\ validation = NotCalled
    /\ counted = NotCalled
    /\ input = NoInput
    /\ equation = <<>>
    /\ stoic = NotCalled
    /\ work = NotCalled
    /\ parser = NewParser
    /\ lastCall = NotCalled
    /\ matrixData = NotCalled
    /\ calls = 0

ValidateFormula ==
    /\ mode = "formula"
    /\ validation = NotCalled
    /\ validation' = validate_formula(formula)
    /\ UNCHANGED <<mode, formula, counted, input, equation, stoic, work,
                   parser, lastCall, matrixData, calls>>

AtomCountInFormula ==
    /\ mode = "formula"
    /\ counted = NotCalled
    /\ counted' = atom_count_in_formula(formula)
    /\ UNCHANGED <<mode, formula, validation, input, equation, stoic, work,
                   parser, lastCall, matrixData, calls>>

GetStoic ==
    /\ mode = "stoic"
    /\ stoic = NotCalled
    /\ stoic' = get_stoic(equation, FALSE)
    /\ UNCHANGED <<mode, formula, validation, counted, input, equation, work,
                   parser, lastCall, matrixData, calls>>

GetStoicShowWork ==
    /\ mode = "stoic"
    /\ work = NotCalled
    /\ work' = get_stoic(equation, TRUE)
    /\ UNCHANGED <<mode, formula, validation, counted, input, equation, stoic,
                   parser, lastCall, matrixData, calls>>

EquationParser ==
    /\ mode = "parser"
    /\ calls < MaxCalls
    /\ \E i \in ParserInputs :
         LET done == equation_parser(parser, EquationText(i))
         IN /\ input' = i
            /\ equation' = EquationText(i)
            /\ parser' = done.parser
            /\ lastCall' = done.outcome
    /\ matrixData' = NotCalled
    /\ calls' = calls + 1
    /\ UNCHANGED <<mode, formula, validation, counted, stoic, work>>

GetMatrix ==
    /\ mode = "parser"
    /\ matrixData = NotCalled
    /\ matrixData' = get_matrix(parser)
    /\ UNCHANGED <<mode, formula, validation, counted, input, equation, stoic,
                   work, parser, lastCall, calls>>

Init == InitFormula \/ InitStoic

Next ==
    \/ ValidateFormula
    \/ AtomCountInFormula
    \/ GetStoic
    \/ GetStoicShowWork

Spec == Init /\ [][Next]_vars

NextParser ==
    \/ EquationParser
    \/ GetMatrix

SpecParser == InitParser /\ [][NextParser]_vars

---------------------------------------------------------------------------
(* What a formula says, read off its text *)

\* the number of "(" less the number of ")" among the first n characters
RECURSIVE Depth(_, _)
Depth(f, n) ==
    IF n = 0 THEN 0
    ELSE Depth(f, n - 1) + (IF f[n] = "(" THEN 1 ELSE IF f[n] = ")" THEN -1 ELSE 0)

ClosesNothing(f) == \E n \in 1..Len(f) : Depth(f, n) < 0
LeftOpen(f) == Depth(f, Len(f)) > 0
ParenthesesMatch(f) == ~ClosesNothing(f) /\ ~LeftOpen(f)

\* the ")" that closes the "(" at p, in a formula whose parentheses match
ClosingOf(f, p) ==
    CHOOSE q \in (p + 1)..Len(f) :
        /\ Depth(f, q) = Depth(f, p - 1)
        /\ \A r \in p..(q - 1) : Depth(f, r) > Depth(f, p - 1)

\* the groups around position i, each named by its ")"
ClosingsAround(f, i) ==
    {ClosingOf(f, p) : p \in {p \in 1..(i - 1) : f[p] = "(" /\ ClosingOf(f, p) > i}}

HasDigitAt(f, i) == i <= Len(f) /\ f[i] \in Digit

\* the multiplier written at i: the number there, 1 where there is none;
\* with zeroAsNone a written number of value 0 reads as no number
MultiplierAt(f, i, zeroAsNone) ==
    IF HasDigitAt(f, i) /\ ~(zeroAsNone /\ DigitRun(f, i, 0)[1] = 0)
    THEN DigitRun(f, i, 0)[1]
    ELSE 1

\* where the element symbols of a formula start, and the symbol starting at i
SymbolStarts(f) == {i \in 1..Len(f) : f[i] \in Upper}
SymbolAt(f, i) == SubSeq(f, i, LowerRun(f, i + 1) - 1)
SymbolsOf(f) == {SymbolAt(f, i) : i \in SymbolStarts(f)}

\* the product of the multipliers after the closing parentheses in Q
RECURSIVE GroupProduct(_, _, _)
GroupProduct(f, Q, zeroAsNone) ==
    IF Q = {} THEN 1
    ELSE LET q == CHOOSE q \in Q : TRUE
         IN MultiplierAt(f, q + 1, zeroAsNone)
            * GroupProduct(f, Q \ {q}, zeroAsNone)

\* the atoms the symbols starting at the positions in S stand for
RECURSIVE AtomsAt(_, _, _)
AtomsAt(f, S, zeroAsNone) ==
    IF S = {} THEN 0
    ELSE LET i == CHOOSE i \in S : TRUE
         IN MultiplierAt(f, LowerRun(f, i + 1), zeroAsNone)
            * GroupProduct(f, ClosingsAround(f, i), zeroAsNone)
            + AtomsAt(f, S \ {i}, zeroAsNone)

\* atoms of element e the text of f stands for, multipliers read as written
WrittenCount(f, e) ==
    AtomsAt(f, {i \in SymbolStarts(f) : SymbolAt(f, i) = e}, FALSE)

\* the same, a written 0 read as 1
EffectiveCount(f, e) ==
    AtomsAt(f, {i \in SymbolStarts(f) : SymbolAt(f, i) = e}, TRUE)

\* the last character is a digit, some letter is a capital, a 0 or a 1 occurs
Suspicious(f) ==
    /\ f # <<>>
    /\ f[Len(f)] \in Digit
    /\ \E k \in 1..Len(f) : f[k] \in Upper
    /\ \E k \in 1..Len(f) : f[k] \in {"0", "1"}

\* every 0 written O and every 1 written I
LettersForDigits(f) ==
    [k \in 1..Len(f) |->
        IF f[k] = "0" THEN "O" ELSE IF f[k] = "1" THEN "I" ELSE f[k]]

---------------------------------------------------------------------------
(* Claims about the formula counter *)

\* two dicts give every element the same count, an absent element counting 0
SameCounts(d1, d2) ==
    \A e \in KeySet(d1) \cup KeySet(d2) : Get(d1, e, 0) = Get(d2, e, 0)

\* f is A, a middle dot, a number k and B, where A and B count on their own
IsHydrate(f) ==
    LET parts == Split(f, MiddleDot)
    IN /\ Len(parts) = 2
       /\ HasDigitAt(parts[2], 1)
       /\ atom_count_in_formula(parts[1]).ok
       /\ DigitRun(parts[2], 1, 0)[2] <= Len(parts[2])
       /\ atom_count_in_formula(
              SubSeq(parts[2], DigitRun(parts[2], 1, 0)[2], Len(parts[2]))).ok

HydrateBase(f) == atom_count_in_formula(Split(f, MiddleDot)[1]).value
HydrateFactor(f) == DigitRun(Split(f, MiddleDot)[2], 1, 0)[1]
HydrateWater(f) ==
    LET part == Split(f, MiddleDot)[2]
    IN atom_count_in_formula(
           SubSeq(part, DigitRun(part, 1, 0)[2], Len(part))).value

CopperSulfatePentahydrate ==
    <<"C","u","S","O","4",MiddleDot,"5","H","2","O">>

\* C3: the count of a hydrate A.kB is the count of A plus k times the
\* count of B, element by element; CuSO4.5H2O counts Cu 1, S 1, O 9, H 10
C3_HydrateCounting ==
    /\ (counted # NotCalled /\ IsHydrate(formula)) =>
          /\ counted.ok
          /\ \A e \in KeySet(counted.value) \cup KeySet(HydrateBase(formula))
                        \cup KeySet(HydrateWater(formula)) :
                Get(counted.value, e, 0) =
                    Get(HydrateBase(formula), e, 0)
                    + HydrateFactor(formula) * Get(HydrateWater(formula), e, 0)
    /\ (counted # NotCalled /\ formula = CopperSulfatePentahydrate) =>
          /\ counted.ok
          /\ SameCounts(counted.value,
                        << <<<<"C","u">>, 1>>, <<<<"S">>, 1>>,
                           <<<<"O">>, 9>>, <<<<"H">>, 10>> >>)

C5_MalformedRejected ==
    (/\ counted # NotCalled
     /\ (formula = <<>> \/ ClosesNothing(formula) \/ LeftOpen(formula))) =>
        ~counted.ok

\* C9: pre-validation raises, naming the formula with every 0 written O and
\* every 1 written I, exactly when the formula ends in a digit, holds a
\* capital letter and holds a 0 or a 1; the counter then returns no counts
\* and get_stoic no coefficients for an equation with that species; in every
\* other case pre-validation passes and the counter goes on to parse
C9_PreValidation ==
    /\ (validation # NotCalled /\ formula # <<>>) =>
          IF Suspicious(formula)
          THEN validation = Raised("ValueError", formula,
                                   LettersForDigits(formula))
          ELSE validation.ok
    /\ (counted # NotCalled /\ formula # <<>>) =>
          IF Suspicious(formula)
          THEN ~counted.ok
          ELSE counted.ok \/ counted.about # formula
    /\ (/\ mode = "stoic"
        /\ \E k \in 1..Len(input.reactants \o input.products) :
              Suspicious((input.reactants \o input.products)[k])) =>
          /\ stoic # NotCalled => stoic = None
          /\ work # NotCalled => work.final_coeffs = None

\* C9's case: H20 is refused with the suggestion H2O, and not counted
C9_Witness ==
    /\ formula = <<"H","2","0">>
    /\ validation = Raised("ValueError", <<"H","2","0">>, <<"H","2","O">>)
    /\ counted # NotCalled
    /\ ~counted.ok

---------------------------------------------------------------------------
(* Claims about get_stoic *)

\* the species an equation is written from, reactants first
SpeciesWritten(i) == i.reactants \o i.products

\* element e summed over the species, products negated, weighted by coeffs
RECURSIVE SignedTotal(_, _, _, _)
SignedTotal(i, e, coeffs, j) ==
    IF j > Len(SpeciesWritten(i)) THEN 0
    ELSE (IF j <= Len(i.reactants) THEN 1 ELSE -1)
         * Get(atom_count_in_formula(SpeciesWritten(i)[j]).value, e, 0)
         * coeffs[j]
         + SignedTotal(i, e, coeffs, j + 1)

Conserves(i, coeffs) ==
    /\ Len(coeffs) = Len(SpeciesWritten(i))
    /\ \A j \in 1..Len(coeffs) : atom_count_in_formula(SpeciesWritten(i)[j]).ok
    /\ \A j \in 1..Len(coeffs) :
          \A e \in KeySet(atom_count_in_formula(SpeciesWritten(i)[j]).value) :
              SignedTotal(i, e, coeffs, 1) = 0

\* C1: the coefficients get_stoic returns conserve every element
C1_Conservation ==
    /\ (stoic # NotCalled /\ stoic # None) => Conserves(input, stoic.some)
    /\ (work # NotCalled /\ work.final_coeffs # None) =>
          Conserves(input, work.final_coeffs.some)

RECURSIVE GcdOf(_, _, _)
GcdOf(coeffs, k, acc) ==
    IF k > Len(coeffs) THEN acc
    ELSE GcdOf(coeffs, k + 1, GCD(acc, Abs(coeffs[k])))

Minimal(coeffs) ==
    /\ \A k \in 1..Len(coeffs) : coeffs[k] \in Nat \ {0}
    /\ GcdOf(coeffs, 1, 0) = 1

\* C2: the coefficients get_stoic returns are positive integers of greatest
\* common divisor 1
C2_MinimalForm ==
    /\ (stoic # NotCalled /\ stoic # None) => Minimal(stoic.some)
    /\ (work # NotCalled /\ work.final_coeffs # None) =>
          Minimal(work.final_coeffs.some)

\* C2's case: Fe + O2 -> Fe2O3, whose vector (2, 3/2, 1) is scaled by 2
C2_Witness ==
    /\ work # NotCalled
    /\ work.vec = Some(<< <<2, 1>>, <<3, 2>>, <<1, 1>> >>)
    /\ work.multiplier = Some(2)
    /\ work.final_coeffs = Some(<<4, 3, 2>>)

\* the parse of the equation fails
ParseFails(i) == ~equation_parser(NewParser, EquationText(i)).outcome.ok

\* the equation parses and get_stoic finds no coefficients for it
Unbalanceable(i) ==
    /\ ~ParseFails(i)
    /\ get_stoic(EquationText(i), TRUE).final_coeffs = None

\* C6: what get_stoic returns for an equation that fails to parse is never
\* what it returns for one that parses and cannot be balanced
C6_Distinguishable ==
    (stoic # NotCalled /\ ParseFails(input)) =>
        \A j \in EquationInputs :
            Unbalanceable(j) => get_stoic(EquationText(j), FALSE) # stoic

\* C7: coefficients are returned exactly when the scaled entries are all
\* positive integers (returned as they are) or all negative integers
\* (returned without their signs); mixed signs or a zero give None
C7_SignRule ==
    (work # NotCalled /\ work.raw_coeffs # None) =>
        LET raw == work.raw_coeffs.some
            allPositive == \A k \in 1..Len(raw) : raw[k][2] = 1 /\ raw[k][1] > 0
            allNegative == \A k \in 1..Len(raw) : raw[k][2] = 1 /\ raw[k][1] < 0
        IN /\ (work.final_coeffs # None) <=> (allPositive \/ allNegative)
           /\ allPositive =>
                 work.final_coeffs = Some([k \in 1..Len(raw) |-> raw[k][1]])
           /\ allNegative =>
                 work.final_coeffs = Some([k \in 1..Len(raw) |-> -raw[k][1]])

---------------------------------------------------------------------------
(* Claims about the parser instance *)

\* the counts of the j-th species an equation is written from
CountsWritten(i, j) == atom_count_in_formula(SpeciesWritten(i)[j]).value

\* where element e is first seen: the first species holding it, and its
\* place among that species' elements
FirstSpecies(i, e) ==
    CHOOSE j \in 1..Len(SpeciesWritten(i)) :
        /\ HasKey(CountsWritten(i, j), e)
        /\ \A h \in 1..(j - 1) : ~HasKey(CountsWritten(i, h), e)

PlaceIn(d, e) == CHOOSE k \in 1..Len(d) : d[k][1] = e

SeenBefore(i, e1, e2) ==
    \/ FirstSpecies(i, e1) < FirstSpecies(i, e2)
    \/ /\ FirstSpecies(i, e1) = FirstSpecies(i, e2)
       /\ PlaceIn(CountsWritten(i, FirstSpecies(i, e1)), e1)
          < PlaceIn(CountsWritten(i, FirstSpecies(i, e1)), e2)

\* C8: after equation_parser succeeds, get_matrix returns a row per element
\* in first-seen order and a column per species position, the entry being
\* the atom count of the element in the species at that position, negated
\* for a product, also when a formula stands at more than one position
C8_PositionalMatrix ==
    (/\ lastCall # NotCalled /\ lastCall.ok
     /\ matrixData # NotCalled) =>
        /\ matrixData.ok
        /\ LET m == matrixData.value
               written == SpeciesWritten(input)
           IN /\ m.species = written
              /\ {m.elements[r] : r \in 1..Len(m.elements)} =
                    UNION {KeySet(CountsWritten(input, j)) :
                               j \in 1..Len(written)}
              /\ \A r1, r2 \in 1..Len(m.elements) :
                    r1 < r2 => SeenBefore(input, m.elements[r1], m.elements[r2])
              /\ Len(m.matrix) = Len(m.elements)
              /\ \A r \in 1..Len(m.matrix) :
                    /\ Len(m.matrix[r]) = Len(written)
                    /\ \A j \in 1..Len(written) :
                          m.matrix[r][j] =
                              (IF j <= Len(input.reactants) THEN 1 ELSE -1)
                              * Get(CountsWritten(input, j), m.elements[r], 0)

\* C10: get_matrix reflects the latest equation_parser call only: what a
\* fresh instance returns for that equation if the call succeeded, and an
\* exception if it raised or no call was made
C10_LatestCallOnly ==
    matrixData # NotCalled =>
        IF lastCall # NotCalled /\ lastCall.ok
        THEN matrixData = get_matrix(equation_parser(NewParser, equation).parser)
        ELSE ~matrixData.ok

===========================================================================
